---- MODULE Spec2Model ----
(***************************************************************************)
(* Model of github_stats.py: GitHubStats.get_org_repos, get_user_commits,  *)
(* get_commit_stats, analyze_productivity and the part of main() that      *)
(* drives them (current month, previous month, analysis, report lines).    *)
(*                                                                         *)
(* Conventions.                                                            *)
(*  - A path or URL is the sequence of its '/'-separated segments;         *)
(*    organization, repository and sha strings contain no '/'.             *)
(*  - A timestamp string 'YYYY-MM-DDTHH:MM:SSZ' is the tuple               *)
(*    <<Y, M, D, h, m, s>>; a day key 'YYYY-MM-DD' is <<Y, M, D>>; a       *)
(*    datetime object is a record.                                         *)
(*  - A Python float is an exact rational [inf, n, d] (d > 0); rounding of *)
(*    binary floating point is not modelled.                               *)
(*  - A dict is the sequence of its entries in insertion order.            *)
(*  - The hosting API is the environment: its data is fixed by Init, and   *)
(*    every request may be answered with a non-success status.             *)
(***************************************************************************)
EXTENDS Integers, Sequences, FiniteSets, TLC

VARIABLES
    org, username, year, month,    \* the four inputs read by main()
    serverRepos,                   \* API: repository names of the organization
    untilInclusive,                \* API: whether `until` admits t = until
    pc,                            \* position of the single thread
    run,                           \* 1: current month, 2: previous month
    start_date, end_date,          \* get_commit_stats locals
    page, repos, repoIdx,          \* get_org_repos / get_user_commits locals
    all_commits,
    i, total_additions, total_deletions,
    repo_stats, daily_stats, commit_times,
    results,                       \* what get_commit_stats returned, per run
    report,                        \* what analyze_productivity returned
    shown,                         \* the work-pattern percentages main prints
    collected,                     \* ghost: the shas get_user_commits returned, per run
    error,                         \* the exception main's handler caught, "" if none
    reqLog                         \* ghost: HTTP requests of the current get_commit_stats call

vars == <<org, username, year, month, serverRepos, untilInclusive, pc, run,
          start_date, end_date, page, repos, repoIdx, all_commits, i,
          total_additions, total_deletions, repo_stats, daily_stats,
          commit_times, results, report, shown, collected, error, reqLog>>

-----------------------------------------------------------------------------
(* Bounds of the model *)

\* Largest number of items the API puts on one page (per_page is 100 in the
\* code; the API may return at most that many).
PageCap == 2

(* Program constants *)
PerPage == 100
HttpOk == 200
TopN == 5
WeekendFrom == 5
SecondsPerMinute == 60

\* The statuses the API answers with: success, and one non-success status
\* standing for all of them.
Statuses == {HttpOk, 404}

-----------------------------------------------------------------------------
(* Generic helpers *)

Min(a, b) == IF a < b THEN a ELSE b

RECURSIVE SumTo(_, _)
SumTo(s, n) == IF n = 0 THEN 0 ELSE SumTo(s, n - 1) + s[n]

\* sum(s)
SumSeq(s) == SumTo(s, Len(s))

RECURSIVE Flatten(_)
Flatten(ss) == IF ss = <<>> THEN <<>> ELSE Head(ss) \o Flatten(Tail(ss))

Range(s) == {s[k] : k \in DOMAIN s}

-----------------------------------------------------------------------------
(* datetime: proleptic Gregorian calendar as Python's datetime module has it *)

IsLeap(y) == (y % 4 = 0) /\ ((y % 100 # 0) \/ (y % 400 = 0))

DaysInMonth(y, m) ==
    IF m = 2 THEN (IF IsLeap(y) THEN 29 ELSE 28)
    ELSE IF m \in {4, 6, 9, 11} THEN 30 ELSE 31

DaysBeforeYear(y) ==
    (y - 1) * 365 + ((y - 1) \div 4) - ((y - 1) \div 100) + ((y - 1) \div 400)

\* _DAYS_BEFORE_MONTH of a non-leap year
DaysBeforeMonthTable == <<0, 31, 59, 90, 120, 151, 181, 212, 243, 273, 304, 334>>

DaysBeforeMonth(y, m) ==
    DaysBeforeMonthTable[m] + (IF m > 2 /\ IsLeap(y) THEN 1 ELSE 0)

\* date.toordinal()
Ymd2Ord(y, m, d) == DaysBeforeYear(y) + DaysBeforeMonth(y, m) + d

\* datetime(year, month, day): the constructor raises ValueError on a month
\* outside 1..12.
ValidDate(y, m, d) == m \in 1..12 /\ d \in 1..DaysInMonth(y, m)

Datetime(y, m, d) ==
    [year |-> y, month |-> m, day |-> d, hour |-> 0, minute |-> 0, second |-> 0]

\* datetime.strptime(s, '%Y-%m-%dT%H:%M:%SZ')
StrptimeIso(s) ==
    [year |-> s[1], month |-> s[2], day |-> s[3],
     hour |-> s[4], minute |-> s[5], second |-> s[6]]

\* datetime.isoformat() of a naive datetime, as the API reads it
IsoFormat(dt) == <<dt.year, dt.month, dt.day, dt.hour, dt.minute, dt.second>>

\* datetime.strftime('%Y-%m-%d')
StrftimeDay(dt) == <<dt.year, dt.month, dt.day>>

\* datetime.strptime(day, '%Y-%m-%d')
StrptimeDay(k) == Datetime(k[1], k[2], k[3])

\* datetime.weekday(): Monday is 0, Sunday is 6
Weekday(dt) == (Ymd2Ord(dt.year, dt.month, dt.day) + 6) % 7

\* A datetime is a day (its ordinal) and a second of that day, as a
\* timedelta is days and seconds.
OrdinalOf(dt) == Ymd2Ord(dt.year, dt.month, dt.day)
SecondOfDay(dt) == dt.hour * 3600 + dt.minute * 60 + dt.second

\* a < b and a == b on datetimes
DtLess(a, b) ==
    \/ OrdinalOf(a) < OrdinalOf(b)
    \/ OrdinalOf(a) = OrdinalOf(b) /\ SecondOfDay(a) < SecondOfDay(b)

DtEq(a, b) == OrdinalOf(a) = OrdinalOf(b) /\ SecondOfDay(a) = SecondOfDay(b)

\* (a - b).total_seconds()
TotalSeconds(a, b) ==
    (OrdinalOf(a) - OrdinalOf(b)) * 86400 + (SecondOfDay(a) - SecondOfDay(b))

-----------------------------------------------------------------------------
(* Exact rationals standing for Python floats *)

Rat(n, d) == [inf |-> FALSE, n |-> n, d |-> d]
Inf == [inf |-> TRUE, n |-> 1, d |-> 1]
Zero == Rat(0, 1)

RatEq(a, b) == (a.inf = b.inf) /\ (a.inf \/ a.n * b.d = b.n * a.d)
RatSub(a, b) == Rat(a.n * b.d - b.n * a.d, a.d * b.d)
RatDiv(a, b) == IF b.n > 0 THEN Rat(a.n * b.d, a.d * b.n)
                           ELSE Rat(0 - a.n * b.d, 0 - a.d * b.n)
RatAdd(a, b) == Rat(a.n * b.d + b.n * a.d, a.d * b.d)
RatMulInt(a, k) == Rat(a.n * k, a.d)
RatDivInt(a, k) == Rat(a.n, a.d * k)
RatPos(a) == a.inf \/ a.n > 0

-----------------------------------------------------------------------------
(* The hosting API (environment) *)

ServerOrg == "acme"

Commit(sha, repo, author, date, a, d) ==
    [sha |-> sha, repo |-> repo, author |-> author, date |-> date,
     additions |-> a, deletions |-> d]

\* The commits of each repository, newest first as the API lists them.
CommitsOfRepo(r) ==
    CASE r = "alpha" ->
           << Commit("a4", "alpha", "dev", <<2024, 3, 4, 9, 0, 0>>, 1, 0),
              Commit("a3", "alpha", "dev", <<2024, 3, 2, 0, 3, 0>>, 5, 5),
              Commit("a2", "alpha", "dev", <<2024, 3, 1, 0, 0, 0>>, 10, 2),
              Commit("a1", "alpha", "dev", <<2024, 2, 10, 12, 0, 0>>, 4, 0),
              Commit("a0", "alpha", "dev", <<2023, 12, 30, 8, 0, 0>>, 6, 3) >>
      [] r = "commits" ->
           << Commit("k1", "commits", "dev", <<2024, 3, 4, 10, 0, 0>>, 3, 1) >>
      [] r = "beta" ->
           << Commit("o1", "beta", "other", <<2024, 3, 5, 8, 0, 0>>, 7, 7),
              Commit("b1", "beta", "dev", <<2024, 3, 3, 18, 30, 0>>, 2, 1) >>
      [] r = "repos" ->
           << Commit("r1", "repos", "dev", <<2024, 1, 1, 0, 0, 0>>, 1, 1) >>
      [] OTHER -> <<>>

RepoNames == {"alpha", "commits", "beta", "repos"}

AllServerCommits ==
    UNION {Range(CommitsOfRepo(r)) : r \in RepoNames}

\* The repository a sha belongs to.
OwnerOf(sha) == (CHOOSE c \in AllServerCommits : c.sha = sha).repo

PageOf(s, p) == SubSeq(s, (p - 1) * PageCap + 1, Min(p * PageCap, Len(s)))

\* GET /orgs/{org}/repos
RepoListStatuses(o) == IF o = ServerOrg THEN Statuses ELSE Statuses \ {HttpOk}

RepoListPage(p) ==
    LET names == PageOf(serverRepos, p)
    IN  [k \in DOMAIN names |-> [name |-> names[k]]]

\* https://api.github.com/repos/{org}/{repo}/commits/{sha}
CommitUrl(o, r, sha) ==
    <<"https:", "", "api.github.com", "repos", o, r, "commits", sha>>

\* GET /repos/{org}/{repo}/commits?author&since&until: author-matching commits
\* with since <= t, and t < until (t <= until when the API's until is
\* inclusive); an empty author parameter filters nothing.
InRange(c, author, since, until) ==
    LET t == StrptimeIso(c.date)
        lo == StrptimeIso(since)
        hi == StrptimeIso(until)
    IN  /\ (author = "" \/ c.author = author)
        /\ ~DtLess(t, lo)
        /\ (DtLess(t, hi) \/ (untilInclusive /\ DtEq(t, hi)))

CommitListing(o, r, author, since, until) ==
    LET sel == SelectSeq(CommitsOfRepo(r),
                         LAMBDA c : InRange(c, author, since, until))
    IN  [k \in DOMAIN sel |->
            [sha |-> sel[k].sha, url |-> CommitUrl(o, r, sel[k].sha),
             date |-> sel[k].date]]

CommitListPage(o, r, author, since, until, p) ==
    PageOf(CommitListing(o, r, author, since, until), p)

\* GET /repos/{org}/{repo}/commits/{sha}
DetailExists(o, r, sha) ==
    /\ o = ServerOrg
    /\ r \in Range(serverRepos)
    /\ \E c \in Range(CommitsOfRepo(r)) : c.sha = sha

DetailStatuses(o, r, sha) ==
    IF DetailExists(o, r, sha) THEN Statuses ELSE Statuses \ {HttpOk}

DetailStats(r, sha) ==
    LET c == CHOOSE c \in Range(CommitsOfRepo(r)) : c.sha = sha
    IN  [additions |-> c.additions, deletions |-> c.deletions]

-----------------------------------------------------------------------------
(* Helpers of the program *)

\* str.split(sep)[k] for sep = '/' + word + '/', on a string given by its
\* segments: a match is a whole segment equal to word with a segment on
\* either side, and matches do not overlap (the next one starts at least two
\* segments later).  SplitOn returns the pieces, each a segment sequence.
RECURSIVE SplitFrom(_, _, _, _)
SplitFrom(segs, word, from, k) ==
    IF k >= Len(segs) THEN <<SubSeq(segs, from, Len(segs))>>
    ELSE IF k > from /\ segs[k] = word
         THEN <<SubSeq(segs, from, k - 1)>> \o SplitFrom(segs, word, k + 1, k + 2)
         ELSE SplitFrom(segs, word, from, k + 1)

SplitOn(segs, word) == SplitFrom(segs, word, 1, 2)

\* commit_url.split('/repos/')[1].split('/commits/')[0].split('/')[-1]
RepoNameOf(url) ==
    LET afterRepos == SplitOn(url, "repos")[2]
        beforeCommits == SplitOn(afterRepos, "commits")[1]
    IN  beforeCommits[Len(beforeCommits)]

\* A page counter that skips a page.
NextPageSkipping(p) == p + 2

\* page += 1
NextPage(p) == p + 1

\* A failed listing that ends the whole scan.
NextRepoAbortingScan(idx, n) == n + 1

\* `break` out of the page loop on a failed listing: the for loop goes on
\* with the next repository.
NextRepoOnFailure(idx, n) == idx + 1

\* defaultdict(lambda: {'additions': 0, 'deletions': 0, 'commits': 0})
NewBucket(key) == [key |-> key, additions |-> 0, deletions |-> 0, commits |-> 0]

\* A bucket update that forgets the deletions.
AddStatsWithoutDeletions(b, a, d) ==
    [b EXCEPT !.additions = @ + a, !.commits = @ + 1]

\* bucket['additions'] += additions; ['deletions'] += deletions; ['commits'] += 1
AddStats(b, a, d) ==
    [b EXCEPT !.additions = @ + a, !.deletions = @ + d, !.commits = @ + 1]

HasKey(dict, key) == \E k \in DOMAIN dict : dict[k].key = key

\* dict[key] += ..., the entry created at the end on first use
UpdateBucket(dict, key, a, d) ==
    LET dd == IF HasKey(dict, key) THEN dict ELSE Append(dict, NewBucket(key))
    IN  [k \in DOMAIN dd |->
            IF dd[k].key = key THEN AddStats(dd[k], a, d) ELSE dd[k]]

\* main(): the month each get_commit_stats call is made for
StatsYear(r) == IF r = 1 THEN year ELSE IF month = 1 THEN year - 1 ELSE year
StatsMonth(r) == IF r = 1 THEN month ELSE IF month = 1 THEN 12 ELSE month - 1

\* end_date of get_commit_stats
EndDate(y, m) == IF m = 12 THEN Datetime(y + 1, 1, 1) ELSE Datetime(y, m + 1, 1)

LogEntry(endpoint, repo, sha, p, status, count) ==
    [endpoint |-> endpoint, repo |-> repo, sha |-> sha, page |-> p,
     per_page |-> PerPage, status |-> status, count |-> count]

-----------------------------------------------------------------------------
(* analyze_productivity *)

\* A percentage change that reports 0 when there is no baseline.
PctChangeZeroWithoutBaseline(curr, prev) ==
    IF RatPos(prev) THEN RatMulInt(RatDiv(RatSub(curr, prev), prev), 100)
    ELSE Zero

\* ((curr - prev) / prev * 100) if prev > 0 else float('inf')
PctChange(curr, prev) ==
    IF RatPos(prev) THEN RatMulInt(RatDiv(RatSub(curr, prev), prev), 100)
    ELSE Inf

\* total / len(daily_stats) if daily_stats else 0
DailyAvg(total, daily) ==
    IF daily # <<>> THEN Rat(total, Len(daily)) ELSE Zero

IsWeekend(day) == Weekday(StrptimeDay(day)) >= WeekendFrom

WeekendChanges(daily) ==
    SumSeq([k \in DOMAIN daily |->
              IF IsWeekend(daily[k].key)
              THEN daily[k].additions + daily[k].deletions ELSE 0])

WeekdayChanges(daily) ==
    SumSeq([k \in DOMAIN daily |->
              IF IsWeekend(daily[k].key)
              THEN 0 ELSE daily[k].additions + daily[k].deletions])

\* (weekend / (weekend + weekday) * 100) if (weekend + weekday) > 0 else 0
WeekendPercentage(we, wd) ==
    IF we + wd > 0 THEN Rat(we * 100, we + wd) ELSE Zero

\* statistics.mean of the consecutive differences, in processing order
AvgCommitInterval(times) ==
    IF Len(times) > 1
    THEN Rat(SumSeq([k \in 1..(Len(times) - 1) |->
                        TotalSeconds(times[k + 1], times[k])]),
             Len(times) - 1)
    ELSE Zero

\* len(commit_times) / len(daily_stats) raises ZeroDivisionError
RaisesZeroDivision(cur) == Len(cur.commit_times) > 1 /\ cur.daily_stats = <<>>

CommitsPerDay(cur) ==
    IF Len(cur.commit_times) > 1
    THEN Rat(Len(cur.commit_times), Len(cur.daily_stats))
    ELSE Zero

\* list.sort(key=lambda x: x[1], reverse=True): stable, descending.  The
\* position of entry k of the list is one more than the number of entries
\* that sort before it: those with a larger total, and those with the same
\* total that come earlier in the list.
PositionDesc(s, k) ==
    1 + Cardinality({j \in DOMAIN s :
                        s[j][2] > s[k][2] \/ (s[j][2] = s[k][2] /\ j < k)})

SortDesc(s) ==
    [p \in DOMAIN s |-> s[CHOOSE k \in DOMAIN s : PositionDesc(s, k) = p]]

MostActive(rs) ==
    LET activity == [k \in DOMAIN rs |->
                       <<rs[k].key, rs[k].additions + rs[k].deletions>>]
        ranked == SortDesc(activity)
    IN  SubSeq(ranked, 1, Min(TopN, Len(ranked)))

AnalyzeProductivity(cur, prev) ==
    LET current_total == cur.additions + cur.deletions
        previous_total == prev.additions + prev.deletions
        current_daily_avg == DailyAvg(current_total, cur.daily_stats)
        previous_daily_avg == DailyAvg(previous_total, prev.daily_stats)
        weekend_changes == WeekendChanges(cur.daily_stats)
        weekday_changes == WeekdayChanges(cur.daily_stats)
    IN  [produced |-> TRUE,
         total_change_percentage |->
             PctChange(Rat(current_total, 1), Rat(previous_total, 1)),
         additions_change_percentage |->
             PctChange(Rat(cur.additions, 1), Rat(prev.additions, 1)),
         deletions_change_percentage |->
             PctChange(Rat(cur.deletions, 1), Rat(prev.deletions, 1)),
         daily_average_changes |-> current_daily_avg,
         daily_average_change_percentage |->
             PctChange(current_daily_avg, previous_daily_avg),
         weekend_activity |-> weekend_changes,
         weekday_activity |-> weekday_changes,
         weekend_percentage |->
             WeekendPercentage(weekend_changes, weekday_changes),
         average_commit_interval_minutes |->
             RatDivInt(AvgCommitInterval(cur.commit_times), SecondsPerMinute),
         commits_per_day |-> CommitsPerDay(cur),
         most_active_repositories |-> MostActive(cur.repo_stats)]

NoReport == [produced |-> FALSE]
NothingShown == [printed |-> FALSE]

-----------------------------------------------------------------------------
(* Inputs and environments explored *)

Orgs == {"", "acme"}
Users == {"", "dev"}
Months == {<<2024, 3>>, <<2024, 1>>, <<2023, 12>>, <<2024, 13>>}
RepoLists == {<<>>, <<"alpha", "commits", "beta">>, <<"repos", "alpha">>}

NoDate == Datetime(1, 1, 1)

\* The largest organization is explored with the author given.
Explored == username = "" => Len(serverRepos) <= 2

Init ==
    /\ org \in Orgs
    /\ username \in Users
    /\ \E ym \in Months : year = ym[1] /\ month = ym[2]
    /\ serverRepos \in RepoLists
    /\ untilInclusive \in BOOLEAN
    /\ Explored
    /\ pc = "begin"
    /\ run = 1
    /\ start_date = NoDate
    /\ end_date = NoDate
    /\ page = 1
    /\ repos = <<>>
    /\ repoIdx = 1
    /\ all_commits = <<>>
    /\ i = 1
    /\ total_additions = 0
    /\ total_deletions = 0
    /\ repo_stats = <<>>
    /\ daily_stats = <<>>
    /\ commit_times = <<>>
    /\ results = <<>>
    /\ report = NoReport
    /\ shown = NothingShown
    /\ collected = <<>>
    /\ error = ""
    /\ reqLog = <<>>

inputs == <<org, username, year, month, serverRepos, untilInclusive>>
statsLocals == <<i, total_additions, total_deletions, repo_stats, daily_stats,
                 commit_times>>
outputs == <<results, report, shown, collected>>

-----------------------------------------------------------------------------
(* Actions *)

\* main() calls get_commit_stats (for the current month, then for the previous
\* one): the date range, then get_user_commits up to the first request of
\* get_org_repos.  datetime() raises ValueError on an invalid month.
BeginStats ==
    /\ pc = "begin"
    /\ LET y == StatsYear(run)
           m == StatsMonth(run)
       IN  IF ~ValidDate(y, m, 1)
           THEN /\ pc' = "error"
                /\ error' = "ValueError"
                /\ UNCHANGED <<start_date, end_date, page, repos, repoIdx,
                               all_commits, reqLog>>
           ELSE /\ start_date' = Datetime(y, m, 1)
                /\ end_date' = EndDate(y, m)
                /\ all_commits' = <<>>
                /\ repos' = <<>>
                /\ page' = 1
                /\ reqLog' = <<>>
                /\ pc' = "org_repos"
                /\ UNCHANGED <<repoIdx, error>>
    /\ UNCHANGED <<inputs, run, statsLocals, outputs>>

\* One iteration of the while loop of get_org_repos.
FetchReposPage ==
    /\ pc = "org_repos"
    /\ \E status \in RepoListStatuses(org) :
         LET data == IF status = HttpOk THEN RepoListPage(page) ELSE <<>>
         IN  /\ reqLog' = Append(reqLog,
                    LogEntry("repos", "", "", page, status, Len(data)))
             /\ IF status # HttpOk
                THEN /\ pc' = "error"
                     /\ error' = "Exception"
                     /\ UNCHANGED <<page, repos, repoIdx>>
                ELSE IF data = <<>>
                THEN /\ pc' = "user_commits"
                     /\ repoIdx' = 1
                     /\ page' = 1
                     /\ UNCHANGED <<repos, error>>
                ELSE /\ repos' = repos \o [k \in DOMAIN data |-> data[k].name]
                     /\ page' = NextPage(page)
                     /\ UNCHANGED <<pc, repoIdx, error>>
    /\ UNCHANGED <<inputs, run, start_date, end_date, all_commits, statsLocals,
                   outputs>>

\* One iteration of the while loop of get_user_commits, for repos[repoIdx].
FetchCommitsPage ==
    /\ pc = "user_commits"
    /\ repoIdx <= Len(repos)
    /\ \E status \in Statuses :
         LET repo == repos[repoIdx]
             data == IF status = HttpOk
                     THEN CommitListPage(org, repo, username,
                              IsoFormat(start_date), IsoFormat(end_date), page)
                     ELSE <<>>
         IN  /\ reqLog' = Append(reqLog,
                    LogEntry("commits", repo, "", page, status, Len(data)))
             /\ IF status # HttpOk
                THEN /\ repoIdx' = NextRepoOnFailure(repoIdx, Len(repos))
                     /\ page' = 1
                     /\ UNCHANGED all_commits
                ELSE IF data = <<>>
                THEN /\ repoIdx' = repoIdx + 1
                     /\ page' = 1
                     /\ UNCHANGED all_commits
                ELSE /\ all_commits' = all_commits \o data
                     /\ page' = NextPage(page)
                     /\ UNCHANGED repoIdx
    /\ UNCHANGED <<inputs, pc, run, start_date, end_date, repos, statsLocals,
                   outputs, error>>

\* The for loop of get_user_commits is exhausted: it returns all_commits and
\* get_commit_stats sets up its accumulators.
EndCollect ==
    /\ pc = "user_commits"
    /\ repoIdx > Len(repos)
    /\ collected' = Append(collected,
                           [k \in DOMAIN all_commits |-> all_commits[k].sha])
    /\ total_additions' = 0
    /\ total_deletions' = 0
    /\ repo_stats' = <<>>
    /\ daily_stats' = <<>>
    /\ commit_times' = <<>>
    /\ i' = 1
    /\ pc' = "commit_stats"
    /\ UNCHANGED <<inputs, run, start_date, end_date, page, repos, repoIdx,
                   all_commits, results, report, shown, error, reqLog>>

\* One iteration of the for loop of get_commit_stats.  (repo_name and stats
\* are bound by \E over a singleton: a value computed once.)
ProcessCommit ==
    /\ pc = "commit_stats"
    /\ i <= Len(all_commits)
    /\ \E repo_name \in {RepoNameOf(all_commits[i].url)} :
       \E status \in DetailStatuses(org, repo_name, all_commits[i].sha) :
         LET commit_sha == all_commits[i].sha
             commit_date == StrptimeIso(all_commits[i].date)
         IN  /\ commit_times' = Append(commit_times, commit_date)
             /\ reqLog' = Append(reqLog,
                    LogEntry("detail", repo_name, commit_sha, 0, status, 0))
             /\ IF status = HttpOk
                THEN \E stats \in {DetailStats(repo_name, commit_sha)} :
                       LET day_key == StrftimeDay(commit_date)
                       IN  /\ total_additions' = total_additions + stats.additions
                           /\ total_deletions' = total_deletions + stats.deletions
                           /\ repo_stats' = UpdateBucket(repo_stats, repo_name,
                                                stats.additions, stats.deletions)
                           /\ daily_stats' = UpdateBucket(daily_stats, day_key,
                                                 stats.additions, stats.deletions)
                ELSE UNCHANGED <<total_additions, total_deletions, repo_stats,
                                 daily_stats>>
    /\ i' = i + 1
    /\ UNCHANGED <<inputs, pc, run, start_date, end_date, page, repos, repoIdx,
                   all_commits, outputs, error>>

\* get_commit_stats returns; main goes on to the previous month or to the
\* analysis.
ReturnStats ==
    /\ pc = "commit_stats"
    /\ i > Len(all_commits)
    /\ results' = Append(results,
           [additions |-> total_additions, deletions |-> total_deletions,
            repo_stats |-> repo_stats, daily_stats |-> daily_stats,
            commit_times |-> commit_times])
    /\ IF run = 1
       THEN run' = 2 /\ pc' = "begin"
       ELSE run' = run /\ pc' = "analyze"
    /\ UNCHANGED <<inputs, start_date, end_date, page, repos, repoIdx,
                   all_commits, statsLocals, report, shown, collected, error,
                   reqLog>>

\* main() calls analyze_productivity(current, previous).
Analyze ==
    /\ pc = "analyze"
    /\ IF RaisesZeroDivision(results[1])
       THEN /\ pc' = "error"
            /\ error' = "ZeroDivisionError"
            /\ UNCHANGED report
       ELSE /\ report' = AnalyzeProductivity(results[1], results[2])
            /\ pc' = "print"
            /\ UNCHANGED error
    /\ UNCHANGED <<inputs, run, start_date, end_date, page, repos, repoIdx,
                   all_commits, statsLocals, results, shown, collected, reqLog>>

\* main() prints the report; the work-pattern lines show weekend_percentage
\* and 100 - weekend_percentage.
PrintReport ==
    /\ pc = "print"
    /\ shown' = [printed |-> TRUE,
                 weekend_percentage |-> report.weekend_percentage,
                 weekday_percentage |->
                     RatSub(Rat(100, 1), report.weekend_percentage)]
    /\ pc' = "done"
    /\ UNCHANGED <<inputs, run, start_date, end_date, page, repos, repoIdx,
                   all_commits, statsLocals, results, report, collected, error,
                   reqLog>>

Next ==
    \/ BeginStats
    \/ FetchReposPage
    \/ FetchCommitsPage
    \/ EndCollect
    \/ ProcessCommit
    \/ ReturnStats
    \/ Analyze
    \/ PrintReport

Spec == Init /\ [][Next]_vars

\* The program is one sequential thread: whenever it has a next step, it
\* takes it.
FairSpec == Spec /\ WF_vars(Next)

TypeOK ==
    /\ pc \in {"begin", "org_repos", "user_commits", "commit_stats", "analyze",
               "print", "done", "error"}
    /\ run \in {1, 2}
    /\ page >= 1
    /\ Len(results) <= 2

-----------------------------------------------------------------------------
(* Vocabulary of the properties *)

LogOf(endpoint) == SelectSeq(reqLog, LAMBDA e : e.endpoint = endpoint)
CommitLogOf(r) ==
    SelectSeq(reqLog, LAMBDA e : e.endpoint = "commits" /\ e.repo = r)

ServerCommit(sha) == CHOOSE c \in AllServerCommits : c.sha = sha

Detailed == SelectSeq(reqLog,
                LAMBDA e : e.endpoint = "detail" /\ e.status = HttpOk)

SumOver(dict, field) == SumSeq([k \in DOMAIN dict |-> dict[k][field]])

Terminated == pc \in {"done", "error"}

CurrentListing(r) ==
    CommitListing(org, r, username, IsoFormat(start_date), IsoFormat(end_date))

-----------------------------------------------------------------------------
(* C1: a commit whose detail lookup fails contributes nothing to the
   snapshot; in particular the timestamp sequence has one entry per
   successfully detailed commit, so its length is the sum of the commit
   counts of the RepoBuckets. *)
C1_TimestampsOnlyOfDetailedCommits ==
    /\ Len(commit_times) = SumOver(repo_stats, "commits")
    /\ \A k \in DOMAIN results :
         Len(results[k].commit_times) = SumOver(results[k].repo_stats, "commits")

(* C2: once repository enumeration has succeeded for both months (both
   get_commit_stats calls returned), the run ends with a report and no error,
   whatever listings and detail lookups failed, and commits_per_day is 0 when
   no day was recorded. *)
C2_ReportWheneverEnumerated ==
    (Len(results) = 2 /\ pc # "analyze") =>
        /\ pc \in {"print", "done"}
        /\ error = ""
        /\ report.produced
        /\ (results[1].daily_stats = <<>> => RatEq(report.commits_per_day, Zero))

(* C3: a commit authored exactly at `until` is never in the sequence collected
   for that period, also when the API's until is inclusive, so no commit is
   collected for both the current and the previous month. *)
C3_DateRangeExclusive ==
    /\ pc \in {"user_commits", "commit_stats"} =>
         \A k \in DOMAIN all_commits :
             DtLess(StrptimeIso(all_commits[k].date), end_date)
    /\ Len(collected) = 2 => Range(collected[1]) \cap Range(collected[2]) = {}
    /\ pc = "commit_stats" =>
         \A k \in DOMAIN repos :
             (\A j \in DOMAIN CommitLogOf(repos[k]) :
                  CommitLogOf(repos[k])[j].status = HttpOk) =>
             \A c \in Range(CommitsOfRepo(repos[k])) :
                 (c.author = username /\ DtEq(StrptimeIso(c.date), start_date)) =>
                 c.sha \in {all_commits[j].sha : j \in DOMAIN all_commits}

(* C4: conservation: after any prefix of the commit sequence the grand totals
   equal the sums over the RepoBuckets and over the DayBuckets (additions,
   deletions), the commit counts of both bucket families agree, and the grand
   totals are the sums of the values of the successfully detailed commits. *)
C4_Conservation ==
    /\ total_additions = SumOver(repo_stats, "additions")
    /\ total_additions = SumOver(daily_stats, "additions")
    /\ total_deletions = SumOver(repo_stats, "deletions")
    /\ total_deletions = SumOver(daily_stats, "deletions")
    /\ SumOver(repo_stats, "commits") = SumOver(daily_stats, "commits")
    /\ pc = "commit_stats" =>
         /\ total_additions =
              SumSeq([k \in DOMAIN Detailed |-> ServerCommit(Detailed[k].sha).additions])
         /\ total_deletions =
              SumSeq([k \in DOMAIN Detailed |-> ServerCommit(Detailed[k].sha).deletions])
         /\ SumOver(repo_stats, "commits") = Len(Detailed)

C4_Witness ==
    /\ pc = "commit_stats"
    /\ i > Len(all_commits)
    /\ Len(repo_stats) >= 2
    /\ Len(daily_stats) >= 2
    /\ total_deletions > 0
    /\ Len(Detailed) < Len(all_commits)

\* What get_user_commits keeps of repository r: every page when no request
\* for r failed, the pages before the failed one otherwise.
KeptOf(r) ==
    LET log == CommitLogOf(r)
        failed == {k \in DOMAIN log : log[k].status # HttpOk}
    IN  IF failed = {} THEN CurrentListing(r)
        ELSE LET f == CHOOSE k \in failed : TRUE
             IN  Flatten([q \in 1..(log[f].page - 1) |-> PageOf(CurrentListing(r), q)])

(* C5: a failed commit listing of one repository does not abort
   get_user_commits: every repository is still visited and the result holds
   every commit of every repository whose listing did not fail, in repository
   order then page order; a failed page of the repository enumeration raises
   and no report is produced. *)
C5_FailureScope ==
    /\ pc = "commit_stats" =>
         /\ \A k \in DOMAIN repos : CommitLogOf(repos[k]) # <<>>
         /\ all_commits = Flatten([k \in DOMAIN repos |-> KeptOf(repos[k])])
    /\ (\E k \in DOMAIN reqLog :
            reqLog[k].endpoint = "repos" /\ reqLog[k].status # HttpOk) =>
         /\ pc = "error"
         /\ error = "Exception"
         /\ ~report.produced

C5_Witness ==
    /\ pc = "commit_stats"
    /\ Len(repos) >= 2
    /\ \E k \in DOMAIN reqLog :
         /\ reqLog[k].endpoint = "commits"
         /\ reqLog[k].repo = repos[1]
         /\ reqLog[k].status # HttpOk
    /\ all_commits # <<>>
    /\ \A k \in DOMAIN all_commits : OwnerOf(all_commits[k].sha) # repos[1]

\* (c - p) / p * 100 on rationals c, p with p > 0
ExpectedPct(c, p) == Rat(100 * (c.n * p.d - p.n * c.d), c.d * p.n)

PctAsClaimed(value, c, p) ==
    /\ RatPos(p) => RatEq(value, ExpectedPct(c, p))
    /\ (RatPos(p) /\ RatEq(c, p)) => RatEq(value, Zero)
    /\ (p.n = 0 /\ RatPos(c)) => value.inf

AvgPerDay(r) ==
    IF r.daily_stats = <<>> THEN Zero
    ELSE Rat(r.additions + r.deletions, Len(r.daily_stats))

(* C6: each of the four percentage changes of the report follows pct_change
   over its own previous-period denominator: (curr - prev) / prev * 100 when
   prev > 0, hence 0 when curr = prev > 0, and the infinite sentinel when
   prev = 0 and curr > 0. *)
C6_PctChanges ==
    report.produced =>
        LET cur == results[1]
            prev == results[2]
        IN  /\ PctAsClaimed(report.total_change_percentage,
                    Rat(cur.additions + cur.deletions, 1),
                    Rat(prev.additions + prev.deletions, 1))
            /\ PctAsClaimed(report.additions_change_percentage,
                    Rat(cur.additions, 1), Rat(prev.additions, 1))
            /\ PctAsClaimed(report.deletions_change_percentage,
                    Rat(cur.deletions, 1), Rat(prev.deletions, 1))
            /\ PctAsClaimed(report.daily_average_change_percentage,
                    AvgPerDay(cur), AvgPerDay(prev))

C6_Witness ==
    /\ pc = "done"
    /\ results[2].additions > 0
    /\ results[2].additions # results[1].additions
    /\ results[2].deletions = 0
    /\ results[1].deletions > 0
    /\ Len(results[2].daily_stats) # Len(results[1].daily_stats)

(* C7: weekend_activity + weekday_activity is the sum of additions+deletions
   over the DayBuckets of the current snapshot; the weekend and weekday
   percentages shown sum to 100 when that total is > 0, and both are 0 when
   it is 0. *)
C7_WeekendWeekdaySplit ==
    shown.printed =>
        LET total == SumOver(results[1].daily_stats, "additions")
                       + SumOver(results[1].daily_stats, "deletions")
        IN  /\ report.weekend_activity + report.weekday_activity = total
            /\ total > 0 =>
                 RatEq(RatAdd(shown.weekend_percentage, shown.weekday_percentage),
                       Rat(100, 1))
            /\ total = 0 =>
                 /\ RatEq(shown.weekend_percentage, Zero)
                 /\ RatEq(shown.weekday_percentage, Zero)

InvalidConfiguration ==
    \/ org = ""
    \/ username = ""
    \/ ~ValidDate(year, month, 1)

(* C8: with a missing organization or author identifier, or an invalid date
   range, get_commit_stats fails before any HTTP request is issued. *)
C8_ConfigRejectedBeforeNetwork ==
    InvalidConfiguration => (reqLog = <<>> /\ results = <<>>)

\* The requests of one fetch loop: pages 1, 2, 3, ... of fixed size, nothing
\* after an empty or failed page.
LoopProtocol(log) ==
    \A k \in DOMAIN log :
        /\ log[k].page = k
        /\ log[k].per_page = PerPage
        /\ k < Len(log) => (log[k].status = HttpOk /\ log[k].count > 0)

C9_Protocol ==
    /\ LoopProtocol(LogOf("repos"))
    /\ \A r \in RepoNames : LoopProtocol(CommitLogOf(r))
    /\ repos = Flatten([k \in DOMAIN LogOf("repos") |->
                  IF LogOf("repos")[k].status = HttpOk
                  THEN PageOf(serverRepos, LogOf("repos")[k].page) ELSE <<>>])
    /\ all_commits = Flatten([k \in DOMAIN LogOf("commits") |->
                  IF LogOf("commits")[k].status = HttpOk
                  THEN PageOf(CurrentListing(LogOf("commits")[k].repo),
                              LogOf("commits")[k].page)
                  ELSE <<>>])
    /\ pc \in {"user_commits", "commit_stats"} => repos = serverRepos

\* Inside get_user_commits: the page loop of get_org_repos, then one page
\* loop per repository.
Fetching == pc \in {"org_repos", "user_commits"}

(* C9: both fetch loops request pages 1, 2, 3, ... with page size 100, stop
   at the first empty page (or failure) and request nothing after it, return
   the concatenation of the pages in page order, and the fetching always
   comes to an end (the API's collections being finite). *)
C9_Pagination ==
    /\ []C9_Protocol
    /\ Fetching ~> ~Fetching

C9_Witness ==
    /\ pc = "commit_stats"
    /\ Len(LogOf("repos")) >= 3
    /\ \E r \in RepoNames :
         /\ Len(CommitLogOf(r)) >= 3
         /\ CommitLogOf(r)[3].status = HttpOk
         /\ CommitLogOf(r)[3].count = 0

(* C10: the repository name get_commit_stats derives from a commit's URL is
   the repository the commit was listed from, for every repository name, so
   the detail lookup and the RepoBucket are those of that repository. *)
C10_RepoAttribution ==
    /\ \A k \in DOMAIN all_commits :
         RepoNameOf(all_commits[k].url) = OwnerOf(all_commits[k].sha)
    /\ \A k \in DOMAIN reqLog :
         reqLog[k].endpoint = "detail" => reqLog[k].repo = OwnerOf(reqLog[k].sha)

====
